---- MODULE Spec2Model ----
(***************************************************************************)
(* A model of longhorn-manager's types package (src/types/types.go): the   *)
(* disk-annotation validator CreateDisksFromAnnotation, the default-disk   *)
(* bootstrap CreateDefaultDisk, the label and name derivations, and the    *)
(* CPU-reservation validator.                                              *)
(*                                                                         *)
(* Go strings are TLA+ strings; Go maps are TLA+ functions whose DOMAIN is *)
(* the key set; a Go error is a string, "" standing for nil.               *)
(***************************************************************************)
EXTENDS Integers, Sequences, FiniteSets, TLC

VARIABLES
    call,      \* the running CreateDisksFromAnnotation / CreateDefaultDisk call
    checksum,  \* util.GetStringChecksum, as a function of its argument
    out,       \* the last call of a pure function: its name, arguments, result
    calls      \* the CreateDisksFromAnnotation calls running concurrently

vars == <<call, checksum, out, calls>>

(***************************************************************************)
(* Program constants (src/types/types.go, const blocks).                   *)
(***************************************************************************)
LonghornLabelKeyPrefix == "longhorn.io"
LonghornLabelEngineImage == "engine-image"
LonghornLabelInstanceManager == "instance-manager"
LonghornLabelNode == "node"
LonghornLabelDiskUUID == "disk-uuid"
LonghornLabelInstanceManagerType == "instance-manager-type"
LonghornLabelInstanceManagerImage == "instance-manager-image"
LonghornLabelVolume == "longhornvolume"
LonghornLabelShareManager == "share-manager"
LonghornLabelShareManagerImage == "share-manager-image"
LonghornLabelBackingImage == "backing-image"
LonghornLabelBackingImageManager == "backing-image-manager"
LonghornLabelManagedBy == "managed-by"
LonghornLabelCronJobTask == "job-task"
LonghornLabelBackingImageDataSource == "backing-image-data-source"
DefaultDiskPrefix == "default-disk-"
ControlPlaneName == "longhorn-manager"
ImageChecksumNameLength == 8
engineImagePrefix == "ei-"
instanceManagerImagePrefix == "imi-"
shareManagerImagePrefix == "smi-"

(***************************************************************************)
(* Go maps.                                                                *)
(***************************************************************************)
EmptyMap == [k \in {} |-> ""]

\* m[k] = v
MapSet(m, k, v) == [x \in (DOMAIN m) \cup {k} |-> IF x = k THEN v ELSE m[x]]

(***************************************************************************)
(* CreateDisksFromAnnotation.                                              *)
(*                                                                         *)
(* The annotation is the JSON text; the model holds what json.Unmarshal    *)
(* makes of it: either a decoding error, or the list of DiskSpecWithName.  *)
(* StorageReserved and StorageMaximum are int64 in the code; this          *)
(* operation only compares them, so the model draws them from small        *)
(* integers.                                                               *)
(***************************************************************************)
MaxDisks == 2

Paths == {"", "/mnt/a", "/mnt/b"}
Names == {"", "disk1", "default-disk-F1"}
Reservations == {-1, 100, 500, 501}
TagLists == {<<"ssd">>}
Fsids == {"F1", "F2"}
Maximums == {500, 1000}

DiskEntries ==
    [Path : Paths, Name : Names, StorageReserved : Reservations, Tags : TagLists]

Annotations ==
    {[wellFormed |-> FALSE, entries |-> <<>>]}
    \cup {[wellFormed |-> TRUE, entries |-> es] :
            es \in UNION {[1..n -> DiskEntries] : n \in 0..MaxDisks}}

\* What util.GetDiskInfo may answer: an error, or a DiskInfo.
DiskInfoAnswers ==
    {[err |-> "lookup failed", Fsid |-> "", StorageMaximum |-> 0]}
    \cup [err : {""}, Fsid : Fsids, StorageMaximum : Maximums]

\* What util.ValidateTags may answer: an error, or the normalised tags.
TagAnswers ==
    {[err |-> "invalid tag", tags |-> <<>>]} \cup [err : {""}, tags : TagLists]

\* UnmarshalToDisks: the decoded list, or the decoder's error.
UnmarshalToDisks(annotation) ==
    IF annotation.wellFormed
    THEN [ret |-> annotation.entries, err |-> ""]
    ELSE [ret |-> <<>>, err |-> "invalid JSON"]

NewCall(annotation) ==
    [op |-> "CreateDisksFromAnnotation",
     pc |-> "unmarshal",
     annotation |-> annotation,
     disks |-> <<>>,
     i |-> 0,
     validDisks |-> EmptyMap,
     existFsid |-> EmptyMap,
     lookups |-> <<>>,
     tagCalls |-> <<>>,
     ret |-> [isNil |-> TRUE, disks |-> EmptyMap, err |-> ""]]

\* variant: the disks validated so far are returned with the error
FailLeaky(c, err) ==
    [c EXCEPT !.pc = "done",
              !.ret = [isNil |-> FALSE, disks |-> c.validDisks, err |-> err]]

\* return nil, err
Fail(c, err) ==
    [c EXCEPT !.pc = "done",
              !.ret = [isNil |-> TRUE, disks |-> EmptyMap, err |-> err]]

\* lines 515-518
Unmarshal(c) ==
    LET r == UnmarshalToDisks(c.annotation)
    IN  IF r.err # ""
        THEN Fail(c, "failed to unmarshal the default disks annotation")
        ELSE [c EXCEPT !.pc = "loop", !.disks = r.ret, !.i = 1]

\* variant: only the valid disk of the same name is compared
DuplicatePathByName(validDisks, disk) ==
    disk.Name \in DOMAIN validDisks /\ validDisks[disk.Name].Path = disk.Path

\* lines 527-531: some valid disk has the path of this one
DuplicatePath(validDisks, disk) ==
    \E n \in DOMAIN validDisks : validDisks[n].Path = disk.Path

\* variant: the Fsid counts as seen only if it was seen for this path
DuplicateFsidByPath(existFsid, diskInfo, disk) ==
    diskInfo.Fsid \in DOMAIN existFsid /\ existFsid[diskInfo.Fsid] = disk.Path

\* line 538: the Fsid is a key of existFsid
DuplicateFsid(existFsid, diskInfo, disk) ==
    diskInfo.Fsid \in DOMAIN existFsid

\* variant: a reservation of the whole disk is refused
InvalidReservationStrict(disk, diskInfo) ==
    disk.StorageReserved < 0 \/ disk.StorageReserved >= diskInfo.StorageMaximum

\* line 548
InvalidReservation(disk, diskInfo) ==
    disk.StorageReserved < 0 \/ disk.StorageReserved > diskInfo.StorageMaximum

\* lines 534-536
DiskName(disk, diskInfo) ==
    IF disk.Name = "" THEN DefaultDiskPrefix \o diskInfo.Fsid ELSE disk.Name

\* disk.DiskSpec, after disk.Tags = tags (lines 555, 560)
DiskSpecOf(disk, tags) ==
    [Path |-> disk.Path, StorageReserved |-> disk.StorageReserved, Tags |-> tags]

\* One iteration of the loop of lines 519-561 on disks[i]; diskInfo and
\* tagAnswer are what util.GetDiskInfo and util.ValidateTags answer if called.
ProcessDisk(c, diskInfo, tagAnswer) ==
    LET disk == c.disks[c.i]
        looked == [c EXCEPT !.lookups =
                      Append(@, [path |-> disk.Path, info |-> diskInfo])]
        name == DiskName(disk, diskInfo)
        marked == [looked EXCEPT !.existFsid = MapSet(@, diskInfo.Fsid, disk.Path)]
        tagged == [marked EXCEPT !.tagCalls =
                      Append(@, [tags |-> disk.Tags, answer |-> tagAnswer])]
    IN  IF disk.Path = "" THEN Fail(c, "invalid disk")
        ELSE IF diskInfo.err # "" THEN Fail(looked, diskInfo.err)
        ELSE IF DuplicatePath(c.validDisks, disk)
             THEN Fail(looked, "duplicate disk path")
        ELSE IF DuplicateFsid(c.existFsid, diskInfo, disk)
             THEN Fail(looked, "same file system")
        ELSE IF InvalidReservation(disk, diskInfo)
             THEN Fail(marked, "storageReserved is not valid")
        ELSE IF tagAnswer.err # "" THEN Fail(tagged, tagAnswer.err)
        ELSE IF name \in DOMAIN c.validDisks
             THEN Fail(tagged, "disk name has duplicated")
        ELSE [tagged EXCEPT
                !.validDisks = MapSet(@, name, DiskSpecOf(disk, tagAnswer.tags)),
                !.i = @ + 1]

\* line 563
ReturnValid(c) ==
    [c EXCEPT !.pc = "done",
              !.ret = [isNil |-> FALSE, disks |-> c.validDisks, err |-> ""]]

Idle == [op |-> "none"]
NoChecksum == EmptyMap

Init ==
    /\ call \in {NewCall(a) : a \in Annotations}
    /\ checksum = NoChecksum
    /\ out = Idle
    /\ calls = <<>>

DoUnmarshal ==
    /\ call.pc = "unmarshal"
    /\ call' = Unmarshal(call)
    /\ UNCHANGED <<checksum, out, calls>>

DoProcessDisk ==
    /\ call.pc = "loop"
    /\ call.i <= Len(call.disks)
    /\ \E diskInfo \in DiskInfoAnswers, tagAnswer \in TagAnswers :
          call' = ProcessDisk(call, diskInfo, tagAnswer)
    /\ UNCHANGED <<checksum, out, calls>>

DoReturnValid ==
    /\ call.pc = "loop"
    /\ call.i > Len(call.disks)
    /\ call' = ReturnValid(call)
    /\ UNCHANGED <<checksum, out, calls>>

Next == DoUnmarshal \/ DoProcessDisk \/ DoReturnValid

Spec == Init /\ [][Next]_vars

(***************************************************************************)
(* Strings: the functions of Go's strings package the code calls.          *)
(***************************************************************************)
CharAt(s, i) == SubSeq(s, i, i)

\* strings.HasPrefix
HasPrefix(s, prefix) ==
    Len(s) >= Len(prefix) /\ SubSeq(s, 1, Len(prefix)) = prefix

\* strings.TrimPrefix: s without the leading prefix, or s when it has none
TrimPrefix(s, prefix) ==
    IF HasPrefix(s, prefix) THEN SubSeq(s, Len(prefix) + 1, Len(s)) ELSE s

\* The white space characters that have no escape in a string: U+000B (\v),
\* U+0085 (NEL), U+00A0 (NBSP), U+1680 (OGHAM SPACE MARK).
VerticalTab == ""
NextLine == ""
NoBreakSpace == " "
OghamSpaceMark == " "

\* unicode.IsSpace: '\t', '\n', '\v', '\f', '\r', ' ', U+0085, U+00A0, and
\* the White_Space characters above Latin-1.  Of the latter U+1680 is here;
\* U+2000..U+200A, U+2028, U+2029, U+202F, U+205F and U+3000 cannot be written
\* in a string of this language, so no string of the model holds them.
IsSpace(c) ==
    c \in {" ", "\t", "\n", "\r", "\f",
           VerticalTab, NextLine, NoBreakSpace, OghamSpaceMark}

RECURSIVE TrimLeftSpace(_)
TrimLeftSpace(s) ==
    IF Len(s) > 0 /\ IsSpace(CharAt(s, 1)) THEN TrimLeftSpace(Tail(s)) ELSE s

RECURSIVE TrimRightSpace(_)
TrimRightSpace(s) ==
    IF Len(s) > 0 /\ IsSpace(CharAt(s, Len(s)))
    THEN TrimRightSpace(SubSeq(s, 1, Len(s) - 1))
    ELSE s

\* strings.TrimSpace
TrimSpace(s) == TrimRightSpace(TrimLeftSpace(s))

\* strings.Replace(s, old, new, -1) for one-character old and new
RECURSIVE ReplaceAll(_, _, _)
ReplaceAll(s, old, new) ==
    IF s = "" THEN ""
    ELSE (IF CharAt(s, 1) = old THEN new ELSE CharAt(s, 1))
         \o ReplaceAll(Tail(s), old, new)

(***************************************************************************)
(* Identities and name transforms.                                         *)
(***************************************************************************)
\* util.GetStringChecksum: the hex digest of s.
GetStringChecksum(s) == checksum[s]

GetImageCanonicalName(image) ==
    ReplaceAll(ReplaceAll(image, ":", "-"), "/", "-")

\* variant: the image is hashed as given
GetEngineImageChecksumNameUntrimmed(image) ==
    engineImagePrefix
        \o SubSeq(GetStringChecksum(image), 1, ImageChecksumNameLength)

GetEngineImageChecksumName(image) ==
    engineImagePrefix
        \o SubSeq(GetStringChecksum(TrimSpace(image)), 1, ImageChecksumNameLength)

GetInstanceManagerImageChecksumName(image) ==
    instanceManagerImagePrefix
        \o SubSeq(GetStringChecksum(TrimSpace(image)), 1, ImageChecksumNameLength)

GetShareManagerImageChecksumName(image) ==
    shareManagerImagePrefix
        \o SubSeq(GetStringChecksum(TrimSpace(image)), 1, ImageChecksumNameLength)

GetShareManagerPodNameFromShareManagerName(smName) ==
    LonghornLabelShareManager \o "-" \o smName

\* variant: the prefix is stripped for as long as it is there
RECURSIVE TrimPrefixRepeatedly(_)
TrimPrefixRepeatedly(podName) ==
    IF HasPrefix(podName, LonghornLabelShareManager \o "-")
    THEN TrimPrefixRepeatedly(TrimPrefix(podName, LonghornLabelShareManager \o "-"))
    ELSE podName

GetShareManagerNameFromShareManagerPodName(podName) ==
    TrimPrefix(podName, LonghornLabelShareManager \o "-")

IsHexDigit(c) ==
    c \in {"0", "1", "2", "3", "4", "5", "6", "7", "8", "9",
           "a", "b", "c", "d", "e", "f", "A", "B", "C", "D", "E", "F"}

\* regexp "^ei-[a-fA-F0-9]{8}$"
ValidateEngineImageChecksumName(name) ==
    /\ Len(name) = Len(engineImagePrefix) + ImageChecksumNameLength
    /\ HasPrefix(name, engineImagePrefix)
    /\ \A i \in (Len(engineImagePrefix) + 1)..Len(name) : IsHexDigit(CharAt(name, i))

(***************************************************************************)
(* SpecIdentity: the identity and name functions applied to drawn inputs.  *)
(***************************************************************************)
MaxNameParts == 3

NameParts == {"share-manager-", "share-manager", "-", "pvc-1", "s"}

RECURSIVE NamesOfParts(_)
NamesOfParts(n) ==
    IF n = 0 THEN {""}
    ELSE LET shorter == NamesOfParts(n - 1)
         IN  shorter \cup {p \o t : p \in NameParts, t \in shorter}

ShareManagerNames == NamesOfParts(MaxNameParts)

Images == {"", " ", "img", " img", "img\n", "\t img\r\n",
           VerticalTab \o "img",
           NextLine \o "img" \o NoBreakSpace \o OghamSpaceMark}

\* digests util.GetStringChecksum may return: hex strings of 8 digits or more
HexSums == {"cf83e1357eefb8bdf1542850d66d8007", "0A1B2C3D"}

CandidateNames == {"ei-0A1B2C3D", "ei-0A1B2C3", "ei-0A1B2C3D4", "ei-0a1b2c3g",
                   "imi-0A1B2C3D", "xei-0A1B2C3D", ""}

Called(op, args, res, from) == [op |-> op, args |-> args, res |-> res, from |-> from]

InitIdentity ==
    /\ call = Idle
    /\ checksum \in [Images -> HexSums]
    /\ out = Idle
    /\ calls = <<>>

CallPodNameFromName ==
    /\ out = Idle
    /\ \E smName \in ShareManagerNames :
          out' = Called("GetShareManagerPodNameFromShareManagerName", <<smName>>,
                        GetShareManagerPodNameFromShareManagerName(smName), <<>>)
    /\ UNCHANGED <<call, checksum, calls>>

CallNameFromPodName ==
    /\ out.op = "GetShareManagerPodNameFromShareManagerName"
    /\ out' = Called("GetShareManagerNameFromShareManagerPodName", <<out.res>>,
                     GetShareManagerNameFromShareManagerPodName(out.res), out.args)
    /\ UNCHANGED <<call, checksum, calls>>

CallGetEngineImageChecksumName ==
    /\ out = Idle
    /\ \E image \in Images :
          out' = Called("GetEngineImageChecksumName", <<image>>,
                        GetEngineImageChecksumName(image), <<>>)
    /\ UNCHANGED <<call, checksum, calls>>

CallValidateEngineImageChecksumName ==
    /\ out.op \in {"none", "GetEngineImageChecksumName"}
    /\ \E name \in CandidateNames
            \cup (IF out.op = "GetEngineImageChecksumName" THEN {out.res} ELSE {}) :
          out' = Called("ValidateEngineImageChecksumName", <<name>>,
                        ValidateEngineImageChecksumName(name),
                        IF out.op = "GetEngineImageChecksumName" /\ name = out.res
                        THEN out.args ELSE <<>>)
    /\ UNCHANGED <<call, checksum, calls>>

NextIdentity ==
    \/ CallPodNameFromName
    \/ CallNameFromPodName
    \/ CallGetEngineImageChecksumName
    \/ CallValidateEngineImageChecksumName

SpecIdentity == InitIdentity /\ [][NextIdentity]_vars

(***************************************************************************)
(* Label sets.                                                             *)
(***************************************************************************)
GetLonghornLabelKey(name) == LonghornLabelKeyPrefix \o "/" \o name

GetBaseLabelsForSystemManagedComponent ==
    MapSet(EmptyMap, GetLonghornLabelKey(LonghornLabelManagedBy), ControlPlaneName)

GetLonghornLabelComponentKey == GetLonghornLabelKey("component")

\* if value != "" { labels[key] = value }
SetIfNotEmpty(labels, key, test, value) ==
    IF test # "" THEN MapSet(labels, key, value) ELSE labels

GetEngineImageLabels(engineImageName) ==
    LET base == GetBaseLabelsForSystemManagedComponent
        l1 == MapSet(base, GetLonghornLabelComponentKey, LonghornLabelEngineImage)
    IN  MapSet(l1, GetLonghornLabelKey(LonghornLabelEngineImage), engineImageName)

\* variant: the image key is set whatever the image
GetInstanceManagerLabelsUnguarded(node, instanceManagerImage, managerType) ==
    LET base == GetBaseLabelsForSystemManagedComponent
        l1 == MapSet(base, GetLonghornLabelComponentKey, LonghornLabelInstanceManager)
        l2 == MapSet(l1, GetLonghornLabelKey(LonghornLabelInstanceManagerType), managerType)
        l3 == SetIfNotEmpty(l2, GetLonghornLabelKey(LonghornLabelNode), node, node)
    IN  MapSet(l3, GetLonghornLabelKey(LonghornLabelInstanceManagerImage),
            GetInstanceManagerImageChecksumName(GetImageCanonicalName(instanceManagerImage)))

GetInstanceManagerLabels(node, instanceManagerImage, managerType) ==
    LET base == GetBaseLabelsForSystemManagedComponent
        l1 == MapSet(base, GetLonghornLabelComponentKey, LonghornLabelInstanceManager)
        l2 == MapSet(l1, GetLonghornLabelKey(LonghornLabelInstanceManagerType), managerType)
        l3 == SetIfNotEmpty(l2, GetLonghornLabelKey(LonghornLabelNode), node, node)
    IN  SetIfNotEmpty(l3, GetLonghornLabelKey(LonghornLabelInstanceManagerImage),
            instanceManagerImage,
            GetInstanceManagerImageChecksumName(GetImageCanonicalName(instanceManagerImage)))

GetShareManagerInstanceLabel(name) ==
    MapSet(GetBaseLabelsForSystemManagedComponent,
           GetLonghornLabelKey(LonghornLabelShareManager), name)

GetShareManagerLabels(name, image) ==
    LET base == GetBaseLabelsForSystemManagedComponent
        l1 == MapSet(base, GetLonghornLabelComponentKey, LonghornLabelShareManager)
        l2 == SetIfNotEmpty(l1, GetLonghornLabelKey(LonghornLabelShareManager), name, name)
    IN  SetIfNotEmpty(l2, GetLonghornLabelKey(LonghornLabelShareManagerImage), image,
            GetShareManagerImageChecksumName(GetImageCanonicalName(image)))

\* task is job.Task
GetCronJobLabels(volumeName, task) ==
    LET base == GetBaseLabelsForSystemManagedComponent
        l1 == MapSet(base, LonghornLabelVolume, volumeName)
    IN  MapSet(l1, GetLonghornLabelKey(LonghornLabelCronJobTask), task)

GetBackingImageLabels ==
    MapSet(GetBaseLabelsForSystemManagedComponent,
           GetLonghornLabelComponentKey, LonghornLabelBackingImage)

\* variant: starts from make(map[string]string), as the selector functions do
GetBackingImageManagerLabelsNoBase(nodeID, diskUUID) ==
    LET l1 == MapSet(EmptyMap, GetLonghornLabelComponentKey, LonghornLabelBackingImageManager)
        l2 == SetIfNotEmpty(l1, GetLonghornLabelKey(LonghornLabelDiskUUID), diskUUID, diskUUID)
    IN  SetIfNotEmpty(l2, GetLonghornLabelKey(LonghornLabelNode), nodeID, nodeID)

GetBackingImageManagerLabels(nodeID, diskUUID) ==
    LET base == GetBaseLabelsForSystemManagedComponent
        l1 == MapSet(base, GetLonghornLabelComponentKey, LonghornLabelBackingImageManager)
        l2 == SetIfNotEmpty(l1, GetLonghornLabelKey(LonghornLabelDiskUUID), diskUUID, diskUUID)
    IN  SetIfNotEmpty(l2, GetLonghornLabelKey(LonghornLabelNode), nodeID, nodeID)

GetBackingImageDataSourceLabels(name, nodeID, diskUUID) ==
    LET base == GetBaseLabelsForSystemManagedComponent
        l1 == MapSet(base, GetLonghornLabelComponentKey, LonghornLabelBackingImageDataSource)
        l2 == SetIfNotEmpty(l1, GetLonghornLabelKey(LonghornLabelBackingImageDataSource), name, name)
        l3 == SetIfNotEmpty(l2, GetLonghornLabelKey(LonghornLabelDiskUUID), diskUUID, diskUUID)
    IN  SetIfNotEmpty(l3, GetLonghornLabelKey(LonghornLabelNode), nodeID, nodeID)

(***************************************************************************)
(* SpecLabels: the label functions applied to drawn attributes.            *)
(***************************************************************************)
Attributes == {"", "a1", "a2"}
LabelImages == {"", "longhornio/longhorn-instance-manager:v1_20201216"}
ManagerTypes == {"", "engine", "replica"}
JobTasks == {"", "snapshot", "backup"}

InitLabels ==
    /\ call = Idle
    /\ checksum \in [{GetImageCanonicalName(i) : i \in LabelImages} -> HexSums]
    /\ out = Idle
    /\ calls = <<>>

CallGetEngineImageLabels ==
    /\ out = Idle
    /\ \E n \in Attributes :
          out' = Called("GetEngineImageLabels", <<n>>, GetEngineImageLabels(n), <<>>)
    /\ UNCHANGED <<call, checksum, calls>>

CallGetInstanceManagerLabels ==
    /\ out = Idle
    /\ \E node \in Attributes, image \in LabelImages, type \in ManagerTypes :
          out' = Called("GetInstanceManagerLabels", <<node, image, type>>,
                        GetInstanceManagerLabels(node, image, type), <<>>)
    /\ UNCHANGED <<call, checksum, calls>>

CallGetShareManagerInstanceLabel ==
    /\ out = Idle
    /\ \E n \in Attributes :
          out' = Called("GetShareManagerInstanceLabel", <<n>>,
                        GetShareManagerInstanceLabel(n), <<>>)
    /\ UNCHANGED <<call, checksum, calls>>

CallGetShareManagerLabels ==
    /\ out = Idle
    /\ \E n \in Attributes, image \in LabelImages :
          out' = Called("GetShareManagerLabels", <<n, image>>,
                        GetShareManagerLabels(n, image), <<>>)
    /\ UNCHANGED <<call, checksum, calls>>

CallGetCronJobLabels ==
    /\ out = Idle
    /\ \E volumeName \in Attributes, task \in JobTasks :
          out' = Called("GetCronJobLabels", <<volumeName, task>>,
                        GetCronJobLabels(volumeName, task), <<>>)
    /\ UNCHANGED <<call, checksum, calls>>

CallGetBackingImageLabels ==
    /\ out = Idle
    /\ out' = Called("GetBackingImageLabels", <<>>, GetBackingImageLabels, <<>>)
    /\ UNCHANGED <<call, checksum, calls>>

CallGetBackingImageManagerLabels ==
    /\ out = Idle
    /\ \E nodeID \in Attributes, diskUUID \in Attributes :
          out' = Called("GetBackingImageManagerLabels", <<nodeID, diskUUID>>,
                        GetBackingImageManagerLabels(nodeID, diskUUID), <<>>)
    /\ UNCHANGED <<call, checksum, calls>>

CallGetBackingImageDataSourceLabels ==
    /\ out = Idle
    /\ \E n \in Attributes, nodeID \in Attributes, diskUUID \in Attributes :
          out' = Called("GetBackingImageDataSourceLabels", <<n, nodeID, diskUUID>>,
                        GetBackingImageDataSourceLabels(n, nodeID, diskUUID), <<>>)
    /\ UNCHANGED <<call, checksum, calls>>

NextLabels ==
    \/ CallGetEngineImageLabels
    \/ CallGetInstanceManagerLabels
    \/ CallGetShareManagerInstanceLabel
    \/ CallGetShareManagerLabels
    \/ CallGetCronJobLabels
    \/ CallGetBackingImageLabels
    \/ CallGetBackingImageManagerLabels
    \/ CallGetBackingImageDataSourceLabels

SpecLabels == InitLabels /\ [][NextLabels]_vars

(***************************************************************************)
(* Go's fixed-width integers.  TLC's integers are 32 bits wide, so an      *)
(* int64 is held as its two's complement in four 16-bit limbs, least       *)
(* significant first, and the arithmetic is done limb by limb; an overflow *)
(* wraps as Go's does.  The same operators work at any number of limbs,    *)
(* which the properties use to compute exact results in 80 bits.           *)
(***************************************************************************)
LimbBase == 2 ^ 16
Int64Limbs == 64 \div 16
WideLimbs == Int64Limbs + 1

LimbsOfSmall(n, w) == [i \in 1..w |-> IF i = 1 THEN n ELSE 0]

IsZero(a) == \A i \in 1..Len(a) : a[i] = 0

\* a + b + carry, at the width of a
RECURSIVE AddLimbs(_, _, _)
AddLimbs(a, b, carry) ==
    IF a = <<>> THEN <<>>
    ELSE LET t == a[1] + b[1] + carry
         IN  <<t % LimbBase>> \o AddLimbs(Tail(a), Tail(b), t \div LimbBase)

\* a * k + carry for a small k, at the width of a
RECURSIVE MulLimbs(_, _, _)
MulLimbs(a, k, carry) ==
    IF a = <<>> THEN <<>>
    ELSE LET t == a[1] * k + carry
         IN  <<t % LimbBase>> \o MulLimbs(Tail(a), k, t \div LimbBase)

IsNegative(a) == a[Len(a)] >= LimbBase \div 2

Negate(a) ==
    AddLimbs([i \in 1..Len(a) |-> LimbBase - 1 - a[i]], LimbsOfSmall(1, Len(a)), 0)

\* the same number at w limbs
SignExtend(a, w) ==
    [i \in 1..w |-> IF i <= Len(a) THEN a[i]
                    ELSE IF IsNegative(a) THEN LimbBase - 1 ELSE 0]

\* unsigned a / k and a % k for a small k, from the most significant limb,
\* rem being the remainder carried in
RECURSIVE DivLimbs(_, _, _)
DivLimbs(a, k, rem) ==
    IF a = <<>> THEN [q |-> <<>>, r |-> rem]
    ELSE LET t == rem * LimbBase + a[Len(a)]
             rest == DivLimbs(SubSeq(a, 1, Len(a) - 1), k, t % k)
         IN  [q |-> Append(rest.q, t \div k), r |-> rest.r]

\* Go's a / k on signed integers: the quotient truncated toward zero
Quo(a, k) ==
    IF IsNegative(a) THEN Negate(DivLimbs(Negate(a), k, 0).q)
    ELSE DivLimbs(a, k, 0).q

\* unsigned a < b, limbs of equal number
RECURSIVE UnsignedLess(_, _)
UnsignedLess(a, b) ==
    IF a = <<>> THEN FALSE
    ELSE \/ a[Len(a)] < b[Len(b)]
         \/ /\ a[Len(a)] = b[Len(b)]
            /\ UnsignedLess(SubSeq(a, 1, Len(a) - 1), SubSeq(b, 1, Len(b) - 1))

\* signed a < b
Less(a, b) ==
    IF IsNegative(a) # IsNegative(b) THEN IsNegative(a) ELSE UnsignedLess(a, b)

LessEq(a, b) == a = b \/ Less(a, b)

DecimalDigits == "0123456789"
IsDigit(c) == \E d \in 1..10 : CharAt(DecimalDigits, d) = c
DigitValue(c) == (CHOOSE d \in 1..10 : CharAt(DecimalDigits, d) = c) - 1

SyntaxError(w) == [val |-> LimbsOfSmall(0, w), err |-> "invalid syntax"]

\* maxUint64
MaxUint64 == [i \in 1..Int64Limbs |-> LimbBase - 1]

\* strconv.ParseUint: cutoff = maxUint64/10 + 1
UintCutoff ==
    AddLimbs(DivLimbs(MaxUint64, 10, 0).q, LimbsOfSmall(1, Int64Limbs), 0)

\* strconv.ParseUint(s, 10, 64), the loop over the bytes of s with n so far:
\* a byte that is no digit is a syntax error; a number past maxUint64 is a
\* range error, returned at once with maxUint64
RECURSIVE ParseUintLoop(_, _)
ParseUintLoop(s, n) ==
    IF s = "" THEN [val |-> n, err |-> ""]
    ELSE IF ~IsDigit(CharAt(s, 1)) THEN SyntaxError(Int64Limbs)
    ELSE IF ~UnsignedLess(n, UintCutoff)
         THEN [val |-> MaxUint64, err |-> "value out of range"]
    ELSE LET n10 == MulLimbs(n, 10, 0)
             n1 == AddLimbs(n10, LimbsOfSmall(DigitValue(CharAt(s, 1)), Int64Limbs), 0)
         IN  IF UnsignedLess(n1, n10)
             THEN [val |-> MaxUint64, err |-> "value out of range"]
             ELSE ParseUintLoop(Tail(s), n1)

\* strconv.ParseUint(s, 10, 64)
ParseUint(s) ==
    IF s = "" THEN SyntaxError(Int64Limbs)
    ELSE ParseUintLoop(s, LimbsOfSmall(0, Int64Limbs))

\* strconv.ParseInt: cutoff = uint64(1 << 63)
IntCutoff == [i \in 1..Int64Limbs |-> IF i = Int64Limbs THEN LimbBase \div 2 ELSE 0]

\* strconv.ParseInt(s, 10, 0) where int is 64 bits wide
ParseInt(s) ==
    LET neg == s # "" /\ CharAt(s, 1) = "-"
        signed == s # "" /\ CharAt(s, 1) \in {"+", "-"}
        un == ParseUint(IF signed THEN Tail(s) ELSE s)
    IN  IF s = "" THEN SyntaxError(Int64Limbs)
        ELSE IF un.err = "invalid syntax" THEN SyntaxError(Int64Limbs)
        ELSE IF ~neg /\ ~UnsignedLess(un.val, IntCutoff)
             THEN [val |-> AddLimbs(IntCutoff, Negate(LimbsOfSmall(1, Int64Limbs)), 0),
                   err |-> "value out of range"]
        ELSE IF neg /\ UnsignedLess(IntCutoff, un.val)
             THEN [val |-> Negate(IntCutoff), err |-> "value out of range"]
        ELSE [val |-> IF neg THEN Negate(un.val) ELSE un.val, err |-> ""]

\* strconv.Atoi, the loop of the fast path: n = n*10 + int(ch)
RECURSIVE AtoiFastLoop(_, _)
AtoiFastLoop(s, n) ==
    IF s = "" THEN [val |-> n, err |-> ""]
    ELSE IF ~IsDigit(CharAt(s, 1)) THEN SyntaxError(Int64Limbs)
    ELSE AtoiFastLoop(Tail(s), MulLimbs(n, 10, DigitValue(CharAt(s, 1))))

\* the longest string strconv.Atoi takes on its fast path is one shorter
AtoiFastLen == 19

\* strconv.Atoi on a platform whose int is 64 bits wide: strings shorter than
\* 19 are summed directly, the others go through ParseInt
Atoi(s) ==
    IF 0 < Len(s) /\ Len(s) < AtoiFastLen
    THEN LET signed == CharAt(s, 1) \in {"+", "-"}
             digits == IF signed THEN Tail(s) ELSE s
             n == AtoiFastLoop(digits, LimbsOfSmall(0, Int64Limbs))
         IN  IF digits = "" THEN SyntaxError(Int64Limbs)
             ELSE IF n.err # "" THEN n
             ELSE [val |-> IF CharAt(s, 1) = "-" THEN Negate(n.val) ELSE n.val,
                   err |-> ""]
    ELSE ParseInt(s)

RECURSIVE UnsignedDigits(_)
UnsignedDigits(a) ==
    IF IsZero(a) THEN ""
    ELSE LET d == DivLimbs(a, 10, 0)
         IN  UnsignedDigits(d.q) \o CharAt(DecimalDigits, d.r + 1)

\* strconv.FormatInt(a, 10)
FormatInt(a) ==
    IF IsZero(a) THEN "0"
    ELSE IF IsNegative(a) THEN "-" \o UnsignedDigits(Negate(a))
    ELSE UnsignedDigits(a)

\* the int64 a decimal numeral of the model stands for
Int64Of(numeral) == Atoi(numeral).val

(***************************************************************************)
(* ValidateCPUReservationValues.                                           *)
(***************************************************************************)
\* engineManagerCPU+replicaManagerCPU < 0 || engineManagerCPU+replicaManagerCPU > 40
SumOutOfRange(engineManagerCPU, replicaManagerCPU) ==
    LET sum == AddLimbs(engineManagerCPU, replicaManagerCPU, 0)
    IN  IsNegative(sum) \/ Less(LimbsOfSmall(40, Int64Limbs), sum)

ValidateCPUReservationValues(engineManagerCPUStr, replicaManagerCPUStr) ==
    LET engineManagerCPU == Atoi(engineManagerCPUStr)
        replicaManagerCPU == Atoi(replicaManagerCPUStr)
    IN  IF engineManagerCPU.err # "" THEN "engine manager CPU value is not int"
        ELSE IF replicaManagerCPU.err # "" THEN "replica manager CPU value is not int"
        ELSE IF SumOutOfRange(engineManagerCPU.val, replicaManagerCPU.val)
             THEN "the sum should not be smaller than 0% or greater than 40%"
        ELSE ""

CPUStrings ==
    {"0", "20", "30", "40", "41", "-1", "-20", "+5", "012", "", "-", "1.5", "2x", " 3",
     "9223372036854775807", "-9223372036854775808", "-9223372036854775768",
     "9223372036854775808", "-9223372036854775809", "18446744073709551616",
     "9223372036854775809x", "99999999999999999999x"}

InitCPU ==
    /\ call = Idle
    /\ checksum = NoChecksum
    /\ out \in {[op |-> "pending", args |-> <<e, r>>] : e \in CPUStrings, r \in CPUStrings}
    /\ calls = <<>>

CallValidateCPUReservationValues ==
    /\ out.op = "pending"
    /\ out' = Called("ValidateCPUReservationValues", out.args,
                     ValidateCPUReservationValues(out.args[1], out.args[2]), <<>>)
    /\ UNCHANGED <<call, checksum, calls>>

NextCPU == CallValidateCPUReservationValues

SpecCPU == InitCPU /\ [][NextCPU]_vars

(***************************************************************************)
(* CreateDefaultDisk.  StorageMaximum and StorageReserved are int64,       *)
(* written in the state as decimal numerals.                               *)
(***************************************************************************)
DataPaths == {"/var/lib/longhorn", "/mnt/a", "/mnt/b"}

StorageMaximums ==
    {"0", "1", "3", "4", "10", "99", "100", "1000", "4096", "107374182400",
     "1099511627776", "307445734561825860", "307445734561825861",
     "614891469123651720", "4611686018427387904", "9223372036854775807"}

\* What util.CreateDiskPathReplicaSubdirectory may answer.
MkdirAnswers == {"", "mkdir failed"}

\* What util.GetDiskInfo may answer for path: an error, or a DiskInfo.
DefaultDiskInfoAnswers(path) ==
    {[err |-> "lookup failed", Fsid |-> "", Path |-> "", StorageMaximum |-> "0"]}
    \cup [err : {""}, Fsid : Fsids, Path : {path}, StorageMaximum : StorageMaximums]

NewDefaultDiskCall(dataPath) ==
    [op |-> "CreateDefaultDisk",
     pc |-> "mkdir",
     dataPath |-> dataPath,
     diskInfo |-> [err |-> "", Fsid |-> "", Path |-> "", StorageMaximum |-> "0"],
     ret |-> [isNil |-> TRUE, disks |-> EmptyMap, err |-> ""]]

\* line 617: diskInfo.StorageMaximum * 30 / 100
DefaultStorageReserved(storageMaximum) ==
    Quo(MulLimbs(storageMaximum, 30, 0), 100)

\* lines 605-607
Mkdir(c, answer) ==
    IF answer # "" THEN Fail(c, answer) ELSE [c EXCEPT !.pc = "lookup"]

\* lines 608-611
GetDefaultDiskInfo(c, diskInfo) ==
    IF diskInfo.err # "" THEN Fail(c, diskInfo.err)
    ELSE [c EXCEPT !.pc = "return", !.diskInfo = diskInfo]

\* lines 612-619
ReturnDefaultDisk(c) ==
    [c EXCEPT
        !.pc = "done",
        !.ret = [isNil |-> FALSE,
                 err |-> "",
                 disks |-> MapSet(EmptyMap, DefaultDiskPrefix \o c.diskInfo.Fsid,
                    [Path |-> c.diskInfo.Path,
                     AllowScheduling |-> TRUE,
                     EvictionRequested |-> FALSE,
                     StorageReserved |-> FormatInt(DefaultStorageReserved(
                                            Int64Of(c.diskInfo.StorageMaximum)))])]]

InitDefaultDisk ==
    /\ call \in {NewDefaultDiskCall(p) : p \in DataPaths}
    /\ checksum = NoChecksum
    /\ out = Idle
    /\ calls = <<>>

DoMkdir ==
    /\ call.pc = "mkdir"
    /\ \E answer \in MkdirAnswers : call' = Mkdir(call, answer)
    /\ UNCHANGED <<checksum, out, calls>>

DoGetDefaultDiskInfo ==
    /\ call.pc = "lookup"
    /\ \E diskInfo \in DefaultDiskInfoAnswers(call.dataPath) :
          call' = GetDefaultDiskInfo(call, diskInfo)
    /\ UNCHANGED <<checksum, out, calls>>

DoReturnDefaultDisk ==
    /\ call.pc = "return"
    /\ call' = ReturnDefaultDisk(call)
    /\ UNCHANGED <<checksum, out, calls>>

NextDefaultDisk == DoMkdir \/ DoGetDefaultDiskInfo \/ DoReturnDefaultDisk

SpecDefaultDisk == InitDefaultDisk /\ [][NextDefaultDisk]_vars

(***************************************************************************)
(* SpecConcurrent: two CreateDisksFromAnnotation calls on two different    *)
(* annotations, their steps interleaved.  validDisks and existFsid are     *)
(* locals of the call (lines 512-513), so each call has its own record.    *)
(***************************************************************************)
ConcurrentEntries ==
    {[Path |-> p, Name |-> n, StorageReserved |-> 100, Tags |-> <<"ssd">>] :
        <<p, n>> \in {<<"/mnt/a", "">>, <<"/mnt/b", "">>, <<"/mnt/a", "disk1">>}}

ConcurrentAnnotations ==
    {[wellFormed |-> FALSE, entries |-> <<>>]}
    \cup {[wellFormed |-> TRUE, entries |-> es] :
            es \in UNION {[1..n -> ConcurrentEntries] : n \in 0..MaxDisks}}

\* What util.GetDiskInfo may answer a concurrent call: an error, or a DiskInfo
\* of one size.
ConcurrentDiskInfoAnswers ==
    {[err |-> "lookup failed", Fsid |-> "", StorageMaximum |-> 0]}
    \cup [err : {""}, Fsid : Fsids, StorageMaximum : {500}]

\* variant: existFsid is one map of the package, which every call writes to
StepCallSharedFsid(cs, p, diskInfo, tagAnswer) ==
    LET stepped == ProcessDisk(cs[p], diskInfo, tagAnswer)
    IN  [q \in DOMAIN cs |->
            IF q = p THEN stepped
            ELSE [cs[q] EXCEPT !.existFsid =
                    [f \in (DOMAIN @) \cup (DOMAIN stepped.existFsid) |->
                        IF f \in DOMAIN stepped.existFsid
                        THEN stepped.existFsid[f] ELSE @[f]]]]

\* Call p runs one iteration of its loop: it reads and writes its own locals.
StepCall(cs, p, diskInfo, tagAnswer) ==
    [cs EXCEPT ![p] = ProcessDisk(cs[p], diskInfo, tagAnswer)]

InitConcurrent ==
    /\ call = Idle
    /\ checksum = NoChecksum
    /\ out = Idle
    /\ calls \in {<<NewCall(a), NewCall(b)>> :
                    <<a, b>> \in {ab \in ConcurrentAnnotations \X ConcurrentAnnotations :
                                    ab[1] # ab[2]}}

ConcurrentUnmarshal(p) ==
    /\ calls[p].pc = "unmarshal"
    /\ calls' = [calls EXCEPT ![p] = Unmarshal(calls[p])]
    /\ UNCHANGED <<call, checksum, out>>

ConcurrentProcessDisk(p) ==
    /\ calls[p].pc = "loop"
    /\ calls[p].i <= Len(calls[p].disks)
    /\ \E diskInfo \in ConcurrentDiskInfoAnswers, tagAnswer \in TagAnswers :
          calls' = StepCall(calls, p, diskInfo, tagAnswer)
    /\ UNCHANGED <<call, checksum, out>>

ConcurrentReturnValid(p) ==
    /\ calls[p].pc = "loop"
    /\ calls[p].i > Len(calls[p].disks)
    /\ calls' = [calls EXCEPT ![p] = ReturnValid(calls[p])]
    /\ UNCHANGED <<call, checksum, out>>

NextConcurrent ==
    \E p \in {1, 2} :
        \/ ConcurrentUnmarshal(p)
        \/ ConcurrentProcessDisk(p)
        \/ ConcurrentReturnValid(p)

SpecConcurrent == InitConcurrent /\ [][NextConcurrent]_vars

(***************************************************************************)
(* Properties of CreateDisksFromAnnotation, checked under Spec.            *)
(***************************************************************************)
Done == call.op = "CreateDisksFromAnnotation" /\ call.pc = "done"
Succeeded == Done /\ call.ret.err = ""

\* The DiskInfo values util.GetDiskInfo reported for a path during the call.
InfosOf(path) ==
    {call.lookups[j].info : j \in {k \in 1..Len(call.lookups) :
        call.lookups[k].path = path /\ call.lookups[k].info.err = ""}}

\* (a) no two entries of the mapping share a Path
UniquePaths(d) ==
    \A n, m \in DOMAIN d : n # m => d[n].Path # d[m].Path

\* (b) no two entries of the mapping resolve to the same Fsid
UniqueFsids(d) ==
    \A n, m \in DOMAIN d : n # m =>
        /\ InfosOf(d[n].Path) # {}
        /\ \A x \in InfosOf(d[n].Path), y \in InfosOf(d[m].Path) : x.Fsid # y.Fsid

\* (c) 0 <= StorageReserved <= StorageMaximum of the path's DiskInfo
ReservedInBounds(d) ==
    \A n \in DOMAIN d :
        /\ InfosOf(d[n].Path) # {}
        /\ \A x \in InfosOf(d[n].Path) :
              0 <= d[n].StorageReserved /\ d[n].StorageReserved <= x.StorageMaximum

\* The name entry j goes by, given the DiskInfo the call got for it.
NameOfEntry(j) ==
    IF call.disks[j].Name = ""
    THEN DefaultDiskPrefix \o call.lookups[j].info.Fsid
    ELSE call.disks[j].Name

\* (d) every input entry is in the mapping under a name of its own
DistinctNames(d) ==
    /\ Cardinality(DOMAIN d) = Len(call.disks)
    /\ Len(call.lookups) = Len(call.disks)
    /\ \A j \in 1..Len(call.disks) :
          NameOfEntry(j) \in DOMAIN d /\ d[NameOfEntry(j)].Path = call.disks[j].Path

DiskInvariants(d) ==
    UniquePaths(d) /\ UniqueFsids(d) /\ ReservedInBounds(d) /\ DistinctNames(d)

\* C1: whenever CreateDisksFromAnnotation returns a mapping without error, the
\* mapping has no two entries with one Path, no two entries whose paths resolved
\* to one Fsid, every StorageReserved within 0..StorageMaximum of its path's
\* DiskInfo, and every input entry under a distinct name.
C1_ReturnedMappingInvariants ==
    Succeeded => ~call.ret.isNil /\ DiskInvariants(call.ret.disks)

C1_Witness ==
    Succeeded /\ Cardinality(DOMAIN call.ret.disks) >= 2

\* The input is well formed, every path is non-empty and the paths are pairwise
\* distinct; every lookup made succeeded, the Fsids reported are pairwise
\* distinct, every entry looked up has its reservation within the reported
\* bounds, and every tag list handed to util.ValidateTags was accepted.
ValidDistinctInput ==
    /\ call.annotation.wellFormed
    /\ \A j \in 1..Len(call.annotation.entries) :
          call.annotation.entries[j].Path # ""
    /\ \A j, k \in 1..Len(call.annotation.entries) :
          j # k => call.annotation.entries[j].Path # call.annotation.entries[k].Path
    /\ \A j \in 1..Len(call.lookups) :
          /\ call.lookups[j].info.err = ""
          /\ 0 <= call.disks[j].StorageReserved
          /\ call.disks[j].StorageReserved <= call.lookups[j].info.StorageMaximum
    /\ \A j, k \in 1..Len(call.lookups) :
          j # k => call.lookups[j].info.Fsid # call.lookups[k].info.Fsid
    /\ \A j \in 1..Len(call.tagCalls) : call.tagCalls[j].answer.err = ""

\* The names of the entries looked up are pairwise distinct.
DistinctEntryNames ==
    \A j, k \in 1..Len(call.lookups) : j # k => NameOfEntry(j) # NameOfEntry(k)

ReturnsAllEntries ==
    /\ call.ret.err = ""
    /\ ~call.ret.isNil
    /\ Cardinality(DOMAIN call.ret.disks) = Len(call.annotation.entries)
    /\ DiskInvariants(call.ret.disks)

\* C2 as stated: for a valid input of k distinct paths with k distinct Fsids the
\* call returns no error and a mapping of k entries satisfying (a)-(d).
C2_Original_DistinctPathsAndFsidsSuffice ==
    Done /\ ValidDistinctInput => ReturnsAllEntries

\* C2 amended: for a valid input of k distinct paths with k distinct Fsids whose
\* entries' names (the explicit name, or default-disk-<Fsid> when empty) are
\* pairwise distinct, the call returns no error and a mapping of k entries
\* satisfying (a)-(d).
C2_DistinctNamesAlsoNeeded ==
    Done /\ ValidDistinctInput /\ DistinctEntryNames => ReturnsAllEntries

C2_Witness ==
    /\ Done /\ ValidDistinctInput /\ DistinctEntryNames
    /\ Len(call.annotation.entries) = 2
    /\ call.annotation.entries[1].Name = ""
    /\ call.annotation.entries[2].Name # ""
    /\ Cardinality(DOMAIN call.ret.disks) = 2

\* The entry the call stopped at repeats the path of an earlier entry.
StoppedAtDuplicatePath ==
    /\ Done
    /\ call.i \in 1..Len(call.disks)
    /\ call.disks[call.i].Path # ""
    /\ \E j \in 1..(call.i - 1) : call.disks[j].Path = call.disks[call.i].Path

\* C3 as stated: an entry whose path repeats an earlier entry's path is rejected
\* with the duplicate-path error before util.GetDiskInfo is called for it,
\* whatever that lookup would answer.
C3_Original_DuplicatePathBeforeLookup ==
    StoppedAtDuplicatePath =>
        /\ call.ret.err = "duplicate disk path"
        /\ Len(call.lookups) = call.i - 1

\* C3 amended: util.GetDiskInfo is called for an entry whose path repeats an
\* earlier entry's path; if that lookup fails the call returns the lookup's
\* error, and if it succeeds the call returns the duplicate-path error, before
\* the Fsid, reservation, tag and name checks.
C3_DuplicatePathAfterLookup ==
    StoppedAtDuplicatePath =>
        /\ Len(call.lookups) = call.i
        /\ call.lookups[call.i].path = call.disks[call.i].Path
        /\ Len(call.tagCalls) = call.i - 1
        /\ call.ret.isNil
        /\ call.ret.err =
              IF call.lookups[call.i].info.err # ""
              THEN call.lookups[call.i].info.err
              ELSE "duplicate disk path"

C3_Witness ==
    /\ StoppedAtDuplicatePath
    /\ call.ret.err = "duplicate disk path"
    /\ call.lookups[call.i].info.Fsid # call.lookups[1].info.Fsid

\* C4: when the call returns an error it returns a nil mapping, it stopped at
\* the first entry that failed a check (every entry before it was validated,
\* no entry after it was looked at), and the error is that of the first check,
\* in the code's order, which that entry fails.
FirstFailure(j) ==
    LET disk == call.disks[j]
        before == {call.disks[k].Path : k \in 1..(j - 1)}
        info == call.lookups[j].info
    IN  IF disk.Path = "" THEN "invalid disk"
        ELSE IF info.err # "" THEN info.err
        ELSE IF disk.Path \in before THEN "duplicate disk path"
        ELSE IF \E k \in 1..(j - 1) : call.lookups[k].info.Fsid = info.Fsid
             THEN "same file system"
        ELSE IF disk.StorageReserved < 0 \/ disk.StorageReserved > info.StorageMaximum
             THEN "storageReserved is not valid"
        ELSE IF call.tagCalls[Len(call.tagCalls)].answer.err # ""
             THEN call.tagCalls[Len(call.tagCalls)].answer.err
        ELSE "disk name has duplicated"

C4_FailFastNoPartialMapping ==
    Done /\ call.ret.err # "" =>
        /\ call.ret.isNil
        /\ call.ret.disks = EmptyMap
        /\ IF call.annotation.wellFormed
           THEN /\ call.i \in 1..Len(call.disks)
                /\ Cardinality(DOMAIN call.validDisks) = call.i - 1
                /\ Len(call.lookups) \in {call.i - 1, call.i}
                /\ call.ret.err = FirstFailure(call.i)
           ELSE call.i = 0 /\ call.lookups = <<>>

C4_Witness ==
    /\ Done /\ call.ret.err # "" /\ call.ret.isNil
    /\ call.i = 2
    /\ Cardinality(DOMAIN call.validDisks) = 1
    /\ call.ret.err = "disk name has duplicated"

(***************************************************************************)
(* Properties of the identity and name functions, checked under            *)
(* SpecIdentity.                                                           *)
(***************************************************************************)
\* C5: stripping the pod-name prefix from the pod name made of a share-manager
\* name gives the name back, also for names that begin with "share-manager-".
C5_PodNameRoundTrip ==
    out.op = "GetShareManagerNameFromShareManagerPodName" /\ out.from # <<>>
        => out.res = out.from[1]

C5_Witness ==
    /\ out.op = "GetShareManagerNameFromShareManagerPodName"
    /\ out.from # <<>>
    /\ HasPrefix(out.from[1], "share-manager-share-manager-")
    /\ out.res = out.from[1]

\* C8: GetEngineImageChecksumName(s) is "ei-" followed by the first 8 digits of
\* the checksum of s without its surrounding white space; images that are
\* equal once trimmed get the same name; and ValidateEngineImageChecksumName
\* accepts every name so derived.
C8_ChecksumNameShape ==
    /\ out.op = "GetEngineImageChecksumName" =>
          /\ Len(out.res) = 11
          /\ SubSeq(out.res, 1, 3) = "ei-"
          /\ \E t \in Images :
                /\ t = "" \/ (~IsSpace(CharAt(t, 1)) /\ ~IsSpace(CharAt(t, Len(t))))
                /\ \E l, r \in {"", " ", "\t ", "\n", "\r\n", VerticalTab, NextLine,
                                 NoBreakSpace \o OghamSpaceMark} :
                      out.args[1] = l \o t \o r
                /\ SubSeq(out.res, 4, 11) = SubSeq(checksum[t], 1, 8)
          /\ \A other \in Images :
                TrimSpace(other) = TrimSpace(out.args[1])
                    => GetEngineImageChecksumName(other) = out.res
    /\ out.op = "ValidateEngineImageChecksumName" /\ out.from # <<>> =>
          out.res = TRUE

C8_Witness ==
    /\ out.op = "ValidateEngineImageChecksumName"
    /\ out.from = <<"\t img\r\n">>
    /\ out.args[1] = "ei-" \o SubSeq(checksum["img"], 1, 8)
    /\ checksum["img"] # checksum["\t img\r\n"]
    /\ out.res = TRUE

(***************************************************************************)
(* Properties of the label functions, checked under SpecLabels.            *)
(***************************************************************************)
LabelOps ==
    {"GetEngineImageLabels", "GetInstanceManagerLabels", "GetShareManagerInstanceLabel",
     "GetShareManagerLabels", "GetCronJobLabels", "GetBackingImageLabels",
     "GetBackingImageManagerLabels", "GetBackingImageDataSourceLabels"}

ManagedByKey == "longhorn.io/managed-by"
ComponentKey == "longhorn.io/component"

\* The kind-specific keys of a label set: all but managed-by and component.
KindKeys(labels) == (DOMAIN labels) \ {ManagedByKey, ComponentKey}

\* C6 as stated: no label function returns a kind-specific key with an empty
\* value.
C6_Original_NoEmptyKindValue ==
    out.op \in LabelOps => \A k \in KindKeys(out.res) : out.res[k] # ""

\* The keys the code sets under a test of their attribute: the function, the
\* key, and the place of the attribute among the function's arguments.
GuardedKeys ==
    {<<"GetInstanceManagerLabels", "longhorn.io/node", 1>>,
     <<"GetInstanceManagerLabels", "longhorn.io/instance-manager-image", 2>>,
     <<"GetShareManagerLabels", "longhorn.io/share-manager", 1>>,
     <<"GetShareManagerLabels", "longhorn.io/share-manager-image", 2>>,
     <<"GetBackingImageManagerLabels", "longhorn.io/node", 1>>,
     <<"GetBackingImageManagerLabels", "longhorn.io/disk-uuid", 2>>,
     <<"GetBackingImageDataSourceLabels", "longhorn.io/backing-image-data-source", 1>>,
     <<"GetBackingImageDataSourceLabels", "longhorn.io/node", 2>>,
     <<"GetBackingImageDataSourceLabels", "longhorn.io/disk-uuid", 3>>}

\* The keys the code sets without a test of the attribute, in the same form.
AlwaysSet ==
    {<<"GetEngineImageLabels", "longhorn.io/engine-image", 1>>,
     <<"GetInstanceManagerLabels", "longhorn.io/instance-manager-type", 3>>,
     <<"GetShareManagerInstanceLabel", "longhorn.io/share-manager", 1>>,
     <<"GetCronJobLabels", "longhornvolume", 1>>,
     <<"GetCronJobLabels", "longhorn.io/job-task", 2>>}

\* The keys whose value is derived from the attribute, not the attribute itself.
ImageKeys ==
    {"longhorn.io/instance-manager-image", "longhorn.io/share-manager-image"}

\* The kind-specific keys a call must return: the guarded keys whose attribute
\* is non-empty and the always-set keys.
ExpectedKindKeys ==
    {g[2] : g \in {x \in GuardedKeys : x[1] = out.op /\ out.args[x[3]] # ""}}
        \cup {a[2] : a \in {x \in AlwaysSet : x[1] = out.op}}

\* C6 amended: the node, disk-uuid, instance-manager-image, share-manager-image
\* and backing-image-data-source keys, and the share-manager key of
\* GetShareManagerLabels, are included exactly when their own attribute is
\* non-empty, and then carry that attribute (the image keys: a non-empty name
\* derived from it), never an empty value; the engine-image key of
\* GetEngineImageLabels, the instance-manager-type key of
\* GetInstanceManagerLabels, the share-manager key of
\* GetShareManagerInstanceLabel and the longhornvolume and job-task keys of
\* GetCronJobLabels are always included and carry their own attribute, so they
\* are empty exactly when that attribute is empty; no function returns any
\* other kind-specific key.
C6_EmptyValueOnlyOnAlwaysSetKeys ==
    out.op \in LabelOps =>
        /\ KindKeys(out.res) = ExpectedKindKeys
        /\ \A g \in GuardedKeys :
              g[1] = out.op /\ out.args[g[3]] # "" =>
                  /\ out.res[g[2]] # ""
                  /\ g[2] \notin ImageKeys => out.res[g[2]] = out.args[g[3]]
        /\ \A a \in AlwaysSet :
              a[1] = out.op => out.res[a[2]] = out.args[a[3]]

\* GetInstanceManagerLabels with every attribute empty: neither guarded key is
\* there and the instance-manager-type key is, with an empty value.
C6_Witness ==
    /\ out.op = "GetInstanceManagerLabels"
    /\ out.args = <<"", "", "">>
    /\ KindKeys(out.res) = {"longhorn.io/instance-manager-type"}
    /\ out.res["longhorn.io/instance-manager-type"] = ""
        /\ ComponentKey \in DOMAIN out.res

ComponentOf ==
    [GetEngineImageLabels |-> "engine-image",
     GetInstanceManagerLabels |-> "instance-manager",
     GetShareManagerLabels |-> "share-manager",
     GetBackingImageLabels |-> "backing-image",
     GetBackingImageManagerLabels |-> "backing-image-manager",
     GetBackingImageDataSourceLabels |-> "backing-image-data-source"]

(***************************************************************************)
\* The sum of the two values, computed without overflow, is outside 0..40.
SumOutOfRangeExact(engineManagerCPU, replicaManagerCPU) ==
    LET sum == AddLimbs(SignExtend(engineManagerCPU, WideLimbs),
                        SignExtend(replicaManagerCPU, WideLimbs), 0)
    IN  IsNegative(sum) \/ Less(LimbsOfSmall(40, WideLimbs), sum)

\* C9: ValidateCPUReservationValues returns no error exactly when both strings
\* parse as integers and the sum of the two values is within 0..40.
C9_NoErrorIffSumWithinRange ==
    out.op = "ValidateCPUReservationValues" =>
        (out.res = "" <=>
            /\ Atoi(out.args[1]).err = ""
            /\ Atoi(out.args[2]).err = ""
            /\ ~SumOutOfRangeExact(Atoi(out.args[1]).val, Atoi(out.args[2]).val))

(***************************************************************************)
(* Properties of CreateDefaultDisk, checked under SpecDefaultDisk.         *)
(***************************************************************************)
DefaultDiskDone == call.op = "CreateDefaultDisk" /\ call.pc = "done"

\* 30% of a StorageMaximum >= 0, integer part, computed without overflow
ThirtyPercent(storageMaximum) ==
    DivLimbs(MulLimbs(SignExtend(storageMaximum, WideLimbs), 30, 0), 100, 0).q

\* C10: when both collaborators succeed CreateDefaultDisk returns one DiskSpec,
\* keyed by "default-disk-" + Fsid, whose StorageReserved is 30% of the
\* StorageMaximum reported (integer part) and so within 0..StorageMaximum; when
\* either fails, it returns the error and no mapping.
C10_DefaultReservationIsThirtyPercent ==
    DefaultDiskDone =>
        IF call.ret.err = ""
        THEN LET name == "default-disk-" \o call.diskInfo.Fsid
                 max == Int64Of(call.diskInfo.StorageMaximum)
             IN  /\ ~call.ret.isNil
                 /\ DOMAIN call.ret.disks = {name}
                 /\ LET reserved == Int64Of(call.ret.disks[name].StorageReserved)
                    IN  /\ SignExtend(reserved, WideLimbs) = ThirtyPercent(max)
                        /\ ~IsNegative(reserved)
                        /\ LessEq(reserved, max)
        ELSE call.ret.isNil /\ call.ret.disks = EmptyMap

(***************************************************************************)
(* Properties of concurrent calls, checked under SpecConcurrent.           *)
(***************************************************************************)
\* The call on one annotation run alone, from c on, given the answers of
\* util.GetDiskInfo and util.ValidateTags in the order the call asks for them;
\* a question beyond the answers given gets an error.
RECURSIVE RunAlone(_, _, _)
RunAlone(c, lookups, tagCalls) ==
    IF c.pc = "done" THEN c
    ELSE IF c.pc = "unmarshal" THEN RunAlone(Unmarshal(c), lookups, tagCalls)
    ELSE IF c.i > Len(c.disks) THEN ReturnValid(c)
    ELSE LET diskInfo ==
                 IF Len(c.lookups) < Len(lookups)
                 THEN lookups[Len(c.lookups) + 1].info
                 ELSE [err |-> "no answer", Fsid |-> "", StorageMaximum |-> 0]
             tagAnswer ==
                 IF Len(c.tagCalls) < Len(tagCalls)
                 THEN tagCalls[Len(c.tagCalls) + 1].answer
                 ELSE [err |-> "no answer", tags |-> <<>>]
         IN  RunAlone(ProcessDisk(c, diskInfo, tagAnswer), lookups, tagCalls)

\* What the call stopped at was seen before by the call itself.
DuplicateIsOwn(c) ==
    LET own == 1..(c.i - 1)
    IN  /\ c.ret.err = "duplicate disk path" =>
              \E j \in own : c.disks[j].Path = c.disks[c.i].Path
        /\ c.ret.err = "same file system" =>
              \E j \in own : c.lookups[j].info.Fsid = c.lookups[c.i].info.Fsid
        /\ c.ret.err = "disk name has duplicated" =>
              \E j \in own : DiskName(c.disks[j], c.lookups[j].info)
                               = DiskName(c.disks[c.i], c.lookups[c.i].info)

\* C11: under every interleaving of two calls on different annotations, a call
\* that has returned has returned what it returns when run alone on its
\* annotation with the answers it got, every step of a call leaves the other
\* call's record as it was, and a duplicate error of a call is about a path,
\* Fsid or name that the call itself has seen.
C11_ConcurrentCallsAreIsolated ==
    \A p \in {1, 2} :
        /\ calls[p].pc = "done" =>
              /\ calls[p] = RunAlone(NewCall(calls[p].annotation),
                                     calls[p].lookups, calls[p].tagCalls)
              /\ DuplicateIsOwn(calls[p])
        /\ \A f \in DOMAIN calls[p].existFsid :
              \E j \in 1..Len(calls[p].lookups) :
                  calls[p].lookups[j].info.Fsid = f
                  /\ calls[p].lookups[j].path = calls[p].existFsid[f]

\* Both calls returned a mapping, for the same path with the same Fsid under
\* the same name, and the second of them had a second disk of another Fsid.
C11_Witness ==
    /\ calls[1].pc = "done" /\ calls[1].ret.err = ""
    /\ calls[2].pc = "done" /\ calls[2].ret.err = ""
    /\ DOMAIN calls[1].ret.disks = {"default-disk-F1"}
    /\ DOMAIN calls[2].ret.disks = {"default-disk-F1", "default-disk-F2"}
    /\ calls[1].ret.disks["default-disk-F1"].Path = "/mnt/a"
    /\ calls[2].ret.disks["default-disk-F1"].Path = "/mnt/a"

====
